---- MODULE Spec2Model ----
(***************************************************************************)
(* Model of the CURT chatbot back end:                                     *)
(*   - CURTRagPipeline.run and _rerank_with_cohere (rag_pipeline.py),      *)
(*   - the classifiers and formatters of prompts.py,                       *)
(*   - MemoryManager (memory_maager.py),                                   *)
(*   - ChromaDBBuilder.build_database and main (build_chroma.py).          *)
(*                                                                         *)
(* Text is modelled as a sequence of lexical tokens (strings); string      *)
(* concatenation is \o, "x in y" is contiguous-subsequence containment.    *)
(* No token of the texts used here contains a keyword of prompts.py as a   *)
(* proper substring, so containment of tokens is containment of text.      *)
(* A retrieved Document is a record [id, page_content, source]; its        *)
(* mutable metadata['rerank_score'] is kept apart, in rerank_score[id].    *)
(* External collaborators (LLM chains, retriever, Cohere, loaders, the     *)
(* file system and Chroma) answer nondeterministically: they return a      *)
(* value from a small set or raise.                                        *)
(***************************************************************************)
EXTENDS Integers, Sequences, FiniteSets, TLC

VARIABLES
    \* ---- CURTRagPipeline.run ----
    pc,                 \* position of run
    query,              \* argument query
    chat_history,       \* argument chat_history
    expanded_query,     \* local expanded_query
    raw_docs,           \* local raw_docs: documents in retrieval order
    rerank_score,       \* metadata['rerank_score'] of each retrieved document
    valid_docs,         \* local valid_docs
    compressed_context, \* local compressed_context
    answer,             \* local answer
    check_result,       \* local check_result
    result,             \* the dict returned by run
    calls,              \* collaborator invocations of the current request, in order
    rerank_response,    \* what cohere_client.rerank answered (line 82)
    raised_by           \* the collaborator whose exception left run, or "none"

pipeVars == <<pc, query, chat_history, expanded_query, raw_docs, rerank_score,
              valid_docs, compressed_context, answer, check_result, result, calls,
              rerank_response, raised_by>>

VARIABLES
    \* ---- MemoryManager ----
    window_size,        \* self.window_size
    full_history,       \* the list the caller passes
    mem_op,             \* the method that was called, or "none"
    mem_ret             \* what the call produced: a return value or an exception

memVars == <<window_size, full_history, mem_op, mem_ret>>

VARIABLES
    \* ---- build_chroma.py ----
    ing_pc,             \* position of main / build_database
    api_key,            \* whether OPENAI_API_KEY is set
    data_files,         \* [md, txt]: the files under DATA_DIR
    store,              \* CHROMA_DIR: [dir, collection, chunks]
    store0,             \* CHROMA_DIR as it was when main started
    ing_documents,      \* local documents of build_database
    ing_chunks,         \* local chunks of build_database
    report,             \* the messages printed so far
    store_ops           \* the operations performed on CHROMA_DIR, in order

ingVars == <<ing_pc, api_key, data_files, store, store0, ing_documents, ing_chunks,
             report, store_ops>>

VARIABLES
    \* ---- prompts.py functions called on their own ----
    fn_op,              \* the function that was called, or "none"
    fn_query,           \* the query argument
    fn_chunks,          \* the chunks argument
    fn_ret              \* what the call returned: [flag, text]

fnVars == <<fn_op, fn_query, fn_chunks, fn_ret>>

VARIABLES
    \* ---- streamlitapp.py ----
    session_messages,     \* st.session_state.messages
    conversation_started, \* st.session_state.conversation_started
    chat_pc,              \* "waiting" for input, or "thinking" inside a turn
    prompt,               \* the prompt of the turn being processed
    relevant_history,     \* local relevant_history
    prev_messages,        \* the transcript when the last turn began, or the
                          \* one the last clearing threw away
    last_event            \* how the last turn ended ("returned", "raised"),
                          \* "submitted" within a turn, "cleared", or "none"

chatVars == <<session_messages, conversation_started, chat_pc, prompt,
              relevant_history, prev_messages, last_event>>

vars == <<pipeVars, memVars, ingVars, fnVars, chatVars>>

----------------------------------------------------------------------------
\* Bounds of the model

MaxDocs == 6        \* most documents the retriever returns in the model
MaxResults == 2     \* longest result list of a rerank response in the model
MaxWindow == 2      \* largest window_size of a MemoryManager in the model
MaxTranscript == 4  \* longest list passed to a MemoryManager method in the model
MaxFiles == 2       \* most files of one extension under DATA_DIR in the model
MaxChunks == 2      \* most chunks the text splitter returns in the model
MaxQueryLen == 3    \* longest query handed to a classifier on its own
MaxChunkList == 4   \* longest chunk list handed to format_sources on its own
MaxTurns == 6       \* most turns between two clearings of the transcript

----------------------------------------------------------------------------
\* Text helpers (Python str operations on token sequences)

Min(a, b) == IF a <= b THEN a ELSE b

\* sub in s
Contains(s, sub) ==
    \E i \in 0..(Len(s) - Len(sub)) : SubSeq(s, i + 1, i + Len(sub)) = sub

\* s.startswith(p)
StartsWith(s, p) == Len(p) <= Len(s) /\ SubSeq(s, 1, Len(p)) = p

IsSpace(tok) == tok \in {" ", "\n"}

\* s.strip()
RECURSIVE LStrip(_)
LStrip(s) == IF s # <<>> /\ IsSpace(Head(s)) THEN LStrip(Tail(s)) ELSE s

RECURSIVE RStrip(_)
RStrip(s) ==
    IF s # <<>> /\ IsSpace(s[Len(s)]) THEN RStrip(SubSeq(s, 1, Len(s) - 1)) ELSE s

Strip(s) == RStrip(LStrip(s))

LowerTok(tok) ==
    CASE tok = "HI" -> "hi"
      [] tok = "Weather" -> "weather"
      [] tok = "CURT" -> "curt"
      [] OTHER -> tok

UpperTok(tok) ==
    CASE tok = "hallucination" -> "HALLUCINATION"
      [] tok = "grounded" -> "GROUNDED"
      [] OTHER -> tok

\* s.lower(), s.upper()
Lower(s) == [i \in 1..Len(s) |-> LowerTok(s[i])]
Upper(s) == [i \in 1..Len(s) |-> UpperTok(s[i])]

\* sep.join(parts)
RECURSIVE Join(_, _)
Join(sep, parts) ==
    IF parts = <<>> THEN <<>>
    ELSE IF Len(parts) = 1 THEN parts[1]
    ELSE parts[1] \o sep \o Join(sep, Tail(parts))

----------------------------------------------------------------------------
\* prompts.py

NO_CONTEXT_RESPONSE == <<"I don't have specific information about that">>
GREETING_RESPONSE == <<"Hello! I'm the CURT chatbot">>
OFF_TOPIC_RESPONSE == <<"I'm specifically designed to answer questions about CURT">>

greetings == {<<"hi">>, <<"hello">>, <<"hey">>, <<"greetings">>,
              <<"good", " ", "morning">>, <<"good", " ", "afternoon">>,
              <<"good", " ", "evening">>}

is_greeting(q) ==
    LET query_lower == Strip(Lower(q))
    IN  \/ query_lower \in greetings
        \/ \E g \in greetings :
              \/ StartsWith(query_lower, g \o <<" ">>)
              \/ StartsWith(query_lower, g \o <<",">>)

off_topic_keywords == {<<"weather">>, <<"recipe">>, <<"movie">>,
                       <<"sports", " ", "score">>, <<"politics">>, <<"stock">>,
                       <<"celebrity">>, <<"video", " ", "game">>,
                       <<"restaurant">>, <<"fashion">>}

on_topic_terms == {<<"curt">>, <<"car">>, <<"racing", " ", "team">>,
                   <<"competition">>, <<"racing">>,
                   <<"cairo", " ", "university">>}

\* faulty variant: an on-topic term does not override an off-topic keyword
is_off_topic_unguarded(q) ==
    LET query_lower == Lower(q)
    IN  \E keyword \in off_topic_keywords : Contains(query_lower, keyword)

is_off_topic(q) ==
    LET query_lower == Lower(q)
    IN  IF \E term \in on_topic_terms : Contains(query_lower, term)
        THEN FALSE
        ELSE \E keyword \in off_topic_keywords : Contains(query_lower, keyword)


Absent == "absent"      \* marks a key a dict does not have

\* chunk.metadata.get('source', 'Unknown') / chunk.get('source', ...)
ChunkSource(chunk) == IF chunk.source = Absent THEN "Unknown" ELSE chunk.source

\* faulty variant: the loop lists a source every time it occurs
RECURSIVE FormatSourcesRepeating(_, _, _)
FormatSourcesRepeating(chunks, i, seen) ==
    IF i > Len(chunks) THEN <<>>
    ELSE <<ToString(i), ". ", ChunkSource(chunks[i]), "\n">>
         \o FormatSourcesRepeating(chunks, i + 1, seen)

\* the loop of format_sources from position i on, seen_sources = seen
RECURSIVE FormatSourcesFrom(_, _, _)
FormatSourcesFrom(chunks, i, seen) ==
    IF i > Len(chunks) THEN <<>>
    ELSE LET source == ChunkSource(chunks[i])
         IN  IF source \notin seen
             THEN <<ToString(i), ". ", source, "\n">>
                  \o FormatSourcesFrom(chunks, i + 1, seen \cup {source})
             ELSE FormatSourcesFrom(chunks, i + 1, seen)

format_sources(chunks) ==
    IF chunks = <<>> THEN <<>>
    ELSE <<"\n\n**Sources:**\n">> \o FormatSourcesFrom(chunks, 1, {})

\* msg.get('role', 'user'), msg.get('content', '')
MsgRole(msg) == IF msg.role = Absent THEN "user" ELSE msg.role
MsgContent(msg) == IF msg.content.tag = "absent" THEN <<>> ELSE msg.content.text

RECURSIVE format_chat_history(_)
format_chat_history(messages) ==
    IF messages = <<>> THEN <<>>
    ELSE LET msg == Head(messages)
             rest == format_chat_history(Tail(messages))
         IN  IF MsgRole(msg) = "user"
             THEN <<[type |-> "human", content |-> MsgContent(msg)]>> \o rest
             ELSE IF MsgRole(msg) = "assistant"
             THEN <<[type |-> "ai", content |-> MsgContent(msg)]>> \o rest
             ELSE rest

\* faulty variant: the citation block is put in front of the answer
enhance_response_sources_first(ans, chunks) ==
    LET sources == format_sources(chunks)
    IN  IF sources # <<>> THEN sources \o <<"\n">> \o ans ELSE ans

enhance_response_with_sources(ans, chunks) ==
    LET sources == format_sources(chunks)
    IN  IF sources # <<>> THEN ans \o <<"\n">> \o sources ELSE ans

----------------------------------------------------------------------------
\* rag_pipeline.py

TopN == 5            \* top_n passed by run to _rerank_with_cohere
RetrieverK == 10     \* search_kwargs k of the retriever

DISCLAIMER_SENTENCE ==
    <<"*(Note: I verified this answer against my database and found some parts might not be explicitly supported. Please verify with official team documents.)*">>

\* the text run appends at line 144
DISCLAIMER == <<"\n\n">> \o DISCLAIMER_SENTENCE

\* metadata of a freshly retrieved document has no 'rerank_score' key:
\* <<>> is "no key", <<v>> is the value v
NoScores == [i \in 1..MaxDocs |-> <<>>]

\* The documents the vector store can return; several chunks share a source
\* file and one has no 'source' metadata.
DocSourceOf(i) ==
    CASE i % 4 = 1 -> "data/team.md"
      [] i % 4 = 2 -> "data/history.md"
      [] i % 4 = 3 -> "data/team.md"
      [] OTHER -> Absent

Doc(i) == [id |-> i, page_content |-> <<"chunk", ToString(i)>>,
           source |-> DocSourceOf(i)]

\* documents[:n]
Take(s, n) == SubSeq(s, 1, Min(n, Len(s)))

\* relevance_score the reranker gives its k-th result (descending)
RelevanceScore(k) == 100 - k

\* The for-loop of _rerank_with_cohere over rerank_response.results[k..]:
\* raised when documents[result.index] is out of range; scores holds the
\* metadata written so far.
RECURSIVE RerankLoop(_, _, _, _, _)
RerankLoop(documents, results, k, reranked, scores) ==
    IF k > Len(results)
    THEN [raised |-> FALSE, docs |-> reranked, scores |-> scores]
    ELSE IF results[k] >= Len(documents) \/ results[k] < 0 - Len(documents)
    THEN [raised |-> TRUE, docs |-> reranked, scores |-> scores]
    ELSE LET pos == IF results[k] >= 0 THEN results[k] + 1
                    ELSE Len(documents) + results[k] + 1
             original_doc == documents[pos]
         IN  RerankLoop(documents, results, k + 1,
                        Append(reranked, original_doc),
                        [scores EXCEPT ![original_doc.id] = <<RelevanceScore(k)>>])

\* faulty variant: the except branch returns the documents without slicing
rerank_with_cohere_unsliced(documents, top_n, scores, outcome) ==
    IF documents = <<>> THEN [docs |-> <<>>, scores |-> scores]
    ELSE IF outcome.raises
    THEN [docs |-> documents, scores |-> scores]
    ELSE LET loop == RerankLoop(documents, outcome.results, 1, <<>>, scores)
         IN  IF loop.raised
             THEN [docs |-> documents, scores |-> loop.scores]
             ELSE [docs |-> loop.docs, scores |-> loop.scores]

\* _rerank_with_cohere(query, documents, top_n) when the Cohere client
\* answers with outcome = [raises, results]; returns the list and the
\* documents' rerank_score metadata.
rerank_with_cohere(documents, top_n, scores, outcome) ==
    IF documents = <<>> THEN [docs |-> <<>>, scores |-> scores]
    ELSE IF outcome.raises
    THEN [docs |-> Take(documents, top_n), scores |-> scores]
    ELSE LET loop == RerankLoop(documents, outcome.results, 1, <<>>, scores)
         IN  IF loop.raised
             THEN [docs |-> Take(documents, top_n), scores |-> loop.scores]
             ELSE [docs |-> loop.docs, scores |-> loop.scores]

\* check_result.strip().upper().startswith("HALLUCINATION")
FlagsHallucination(check) == StartsWith(Upper(Strip(check)), <<"HALLUCINATION">>)

----------------------------------------------------------------------------
\* memory_maager.py
\*
\* A list element is [isdict, role, content]: isdict is FALSE for an element
\* that is not a dict; role is Absent when the dict has no 'role' key;
\* content.tag is "text" (a str, content.text its characters), "none" (the
\* value None, which has no len) or "absent" (no 'content' key).

Text(content) == [tag |-> "text", text |-> content]
NoContent == [tag |-> "absent", text |-> <<>>]
NoneContent == [tag |-> "none", text |-> <<>>]

\* full_history[-n:] for n > 0
LastN(s, n) == SubSeq(s, Len(s) - Min(n, Len(s)) + 1, Len(s))

\* faulty variant: the window is taken as window_size messages, not pairs
get_recent_history_messages(N, history) ==
    IF history = <<>> THEN <<>>
    ELSE LET max_messages == N
         IN  LastN(history, max_messages)

get_recent_history(N, history) ==
    IF history = <<>> THEN <<>>
    ELSE LET max_messages == N * 2
         IN  LastN(history, max_messages)

get_last_pair(history) ==
    IF Len(history) < 2 THEN <<>> ELSE LastN(history, 2)

\* len(msg.get('content', '')) raises: AttributeError when msg has no get,
\* TypeError when the content has no len
ContentLenRaises(msg) == ~msg.isdict \/ msg.content.tag = "none"

ContentLen(msg) ==
    IF msg.content.tag = "absent" THEN 0 ELSE Len(msg.content.text)

RECURSIVE SumContentLen(_)
SumContentLen(messages) ==
    IF messages = <<>> THEN 0
    ELSE ContentLen(Head(messages)) + SumContentLen(Tail(messages))

\* estimate_tokens: [raised, value]
estimate_tokens(messages) ==
    IF \E i \in 1..Len(messages) : ContentLenRaises(messages[i])
    THEN [raised |-> TRUE, value |-> 0]
    ELSE LET total_chars == SumContentLen(messages)
         IN  [raised |-> FALSE, value |-> total_chars \div 4]

NoStats == [total_messages_in_session |-> 0, window_size_pairs |-> 0,
            messages_in_memory |-> 0, estimated_memory_tokens |-> 0,
            memory_pairs |-> 0]

\* get_stats: [raised, value]
get_stats(N, history) ==
    LET recent == get_recent_history(N, history)
        tokens == estimate_tokens(recent)
    IN  IF tokens.raised THEN [raised |-> TRUE, value |-> NoStats]
        ELSE [raised |-> FALSE,
              value |-> [total_messages_in_session |-> Len(history),
                         window_size_pairs |-> N,
                         messages_in_memory |-> Len(recent),
                         estimated_memory_tokens |-> tokens.value,
                         memory_pairs |-> Len(recent) \div 2]]

\* faulty variant: the content key is not looked for
RECURSIVE validate_history_roles(_)
validate_history_roles(history) ==
    IF history = <<>> THEN TRUE
    ELSE LET msg == Head(history)
         IN  IF ~msg.isdict THEN FALSE
             ELSE IF msg.role = Absent THEN FALSE
             ELSE IF msg.role \notin {"user", "assistant"} THEN FALSE
             ELSE validate_history_roles(Tail(history))

RECURSIVE validate_history(_)
validate_history(history) ==
    IF history = <<>> THEN TRUE
    ELSE LET msg == Head(history)
         IN  IF ~msg.isdict THEN FALSE
             ELSE IF msg.role = Absent \/ msg.content.tag = "absent" THEN FALSE
             ELSE IF msg.role \notin {"user", "assistant"} THEN FALSE
             ELSE validate_history(Tail(history))

\* what a method call produced
Produced(op, raised, list, num, flag, stats) ==
    [op |-> op, raised |-> raised, list |-> list, num |-> num, flag |-> flag,
     stats |-> stats]

NoReturn == Produced("none", FALSE, <<>>, 0, FALSE, NoStats)

\* the elements of the lists of the model
UserMsg == [isdict |-> TRUE, role |-> "user",
            content |-> Text(<<"a", "b", "c", "d">>)]
AssistantMsg == [isdict |-> TRUE, role |-> "assistant",
                 content |-> Text(<<"x", "y", "z">>)]
Elements ==
    { UserMsg, AssistantMsg,
      [isdict |-> FALSE, role |-> Absent, content |-> NoContent],
      [isdict |-> TRUE, role |-> "user", content |-> NoContent],
      [isdict |-> TRUE, role |-> "assistant", content |-> NoneContent],
      [isdict |-> TRUE, role |-> "system", content |-> Text(<<"s">>)],
      [isdict |-> TRUE, role |-> Absent, content |-> Text(<<"t", "u">>)] }

Transcripts == UNION {[1..len -> Elements] : len \in 0..MaxTranscript}

\* one action per method; the list passed is left as it is
GetRecentHistory ==
    /\ mem_op = "none"
    /\ mem_op' = "get_recent_history"
    /\ mem_ret' = Produced("get_recent_history", FALSE,
                           get_recent_history(window_size, full_history),
                           0, FALSE, NoStats)
    /\ UNCHANGED <<window_size, full_history>>

GetLastPair ==
    /\ mem_op = "none"
    /\ mem_op' = "get_last_pair"
    /\ mem_ret' = Produced("get_last_pair", FALSE, get_last_pair(full_history),
                           0, FALSE, NoStats)
    /\ UNCHANGED <<window_size, full_history>>

EstimateTokens ==
    /\ mem_op = "none"
    /\ mem_op' = "estimate_tokens"
    /\ LET r == estimate_tokens(full_history)
       IN  mem_ret' = Produced("estimate_tokens", r.raised, <<>>, r.value,
                               FALSE, NoStats)
    /\ UNCHANGED <<window_size, full_history>>

GetStats ==
    /\ mem_op = "none"
    /\ mem_op' = "get_stats"
    /\ LET r == get_stats(window_size, full_history)
       IN  mem_ret' = Produced("get_stats", r.raised, <<>>, 0, FALSE, r.value)
    /\ UNCHANGED <<window_size, full_history>>

ValidateHistory ==
    /\ mem_op = "none"
    /\ mem_op' = "validate_history"
    /\ mem_ret' = Produced("validate_history", FALSE, <<>>, 0,
                           validate_history(full_history), NoStats)
    /\ UNCHANGED <<window_size, full_history>>

----------------------------------------------------------------------------
\* build_chroma.py
\*
\* CHROMA_DIR is [dir, collection, chunks]: whether the directory exists,
\* whether it holds the persisted collection, and the chunks stored in it.

NoStore == [dir |-> FALSE, collection |-> FALSE, chunks |-> {}]
EmptyDir == [dir |-> TRUE, collection |-> FALSE, chunks |-> {}]
OldStore == [dir |-> TRUE, collection |-> TRUE,
             chunks |-> {<<"old", 1>>, <<"old", 2>>}]

\* n documents loaded from files of one extension
Loaded(ext, n) == [i \in 1..n |-> ext]

\* main, lines 170-178
Main ==
    /\ ing_pc = "main"
    /\ IF ~api_key
       THEN /\ report' = Append(report, "Error: OPENAI_API_KEY not found")
            /\ ing_pc' = "no_key"
            /\ UNCHANGED <<store, store_ops>>
       ELSE /\ store' = [store EXCEPT !.dir = TRUE]
            /\ store_ops' = Append(store_ops, "mkdir")
            /\ ing_pc' = "load"
            /\ UNCHANGED report
    /\ UNCHANGED <<api_key, data_files, store0, ing_documents, ing_chunks>>

\* faulty variant: build_database goes on without looking at what was loaded
LoadDocumentsUnchecked(md_raises, txt_raises) ==
    /\ ing_pc = "load"
    /\ LET md_docs == IF md_raises THEN <<>> ELSE Loaded("md", data_files.md)
           txt_docs == IF txt_raises THEN <<>> ELSE Loaded("txt", data_files.txt)
           all_documents == md_docs \o txt_docs
       IN  /\ ing_documents' = all_documents
           /\ ing_pc' = "chunk"
           /\ UNCHANGED report
    /\ UNCHANGED <<api_key, data_files, store, store0, ing_chunks, store_ops>>

\* build_database, lines 112-116, with load_documents: each of the two
\* loaders returns its files or raises (caught, lines 53 and 66)
LoadDocuments(md_raises, txt_raises) ==
    /\ ing_pc = "load"
    /\ LET md_docs == IF md_raises THEN <<>> ELSE Loaded("md", data_files.md)
           txt_docs == IF txt_raises THEN <<>> ELSE Loaded("txt", data_files.txt)
           all_documents == md_docs \o txt_docs
       IN  /\ ing_documents' = all_documents
           /\ IF all_documents = <<>>
              THEN /\ report' = report \o <<"No ing_documents found!",
                                            "No data files found!">>
                   /\ ing_pc' = "aborted"
              ELSE /\ ing_pc' = "chunk"
                   /\ UNCHANGED report
    /\ UNCHANGED <<api_key, data_files, store, store0, ing_chunks, store_ops>>

\* line 118: the splitter returns k chunks
ChunkDocuments(k) ==
    /\ ing_pc = "chunk"
    /\ ing_chunks' = [i \in 1..k |-> <<"new", i>>]
    /\ ing_pc' = "delete"
    /\ UNCHANGED <<api_key, data_files, store, store0, ing_documents, report,
                   store_ops>>

\* line 118: the splitter raises
ChunkRaises ==
    /\ ing_pc = "chunk"
    /\ ing_pc' = "raised"
    /\ UNCHANGED <<api_key, data_files, store, store0, ing_documents, ing_chunks,
                   report, store_ops>>

\* lines 124-130: shutil.rmtree succeeds or raises (caught)
DeleteExisting(rmtree_raises) ==
    /\ ing_pc = "delete"
    /\ IF store.dir
       THEN /\ store_ops' = Append(store_ops, "rmtree")
            /\ IF rmtree_raises
               THEN /\ report' = Append(report, "Note")
                    /\ UNCHANGED store
               ELSE /\ report' = Append(report, "Deleted existing database")
                    /\ store' = NoStore
       ELSE UNCHANGED <<store, report, store_ops>>
    /\ ing_pc' = "create"
    /\ UNCHANGED <<api_key, data_files, store0, ing_documents, ing_chunks>>

\* lines 132-141: Chroma.from_documents stores the chunks in the collection
CreateCollection ==
    /\ ing_pc = "create"
    /\ store_ops' = Append(store_ops, "from_documents")
    /\ store' = [dir |-> TRUE, collection |-> TRUE,
                 chunks |-> store.chunks \cup {ing_chunks[i] : i \in 1..Len(ing_chunks)}]
    /\ report' = Append(report, "Created collection")
    /\ ing_pc' = "verify"
    /\ UNCHANGED <<api_key, data_files, store0, ing_documents, ing_chunks>>

\* lines 132-138: Chroma.from_documents raises before anything is stored
CreateRaises ==
    /\ ing_pc = "create"
    /\ store_ops' = Append(store_ops, "from_documents")
    /\ ing_pc' = "raised"
    /\ UNCHANGED <<api_key, data_files, store, store0, ing_documents, ing_chunks,
                   report>>

\* lines 143-168: the similarity search and the test embedding return
VerifyDatabase ==
    /\ ing_pc = "verify"
    /\ report' = Append(report, "CHROMADB BUILD COMPLETE!")
    /\ ing_pc' = "returned"
    /\ UNCHANGED <<api_key, data_files, store, store0, ing_documents, ing_chunks,
                   store_ops>>

\* lines 143-164: the similarity search or the test embedding raises
VerifyDatabaseRaises ==
    /\ ing_pc = "verify"
    /\ ing_pc' = "raised"
    /\ UNCHANGED <<api_key, data_files, store, store0, ing_documents, ing_chunks,
                   report, store_ops>>

\* the ingestion script is not running
IngestIdle ==
    /\ ing_pc = "idle"
    /\ api_key = FALSE
    /\ data_files = [md |-> 0, txt |-> 0]
    /\ store = NoStore
    /\ store0 = NoStore
    /\ ing_documents = <<>>
    /\ ing_chunks = <<>>
    /\ report = <<>>
    /\ store_ops = <<>>

----------------------------------------------------------------------------
\* Inputs and collaborator answers of the model

Queries ==
    { <<"hi">>,                                \* greeting
      <<" ", "HI", " ">>,                      \* greeting after lower/strip
      <<"hi", ",", " ", "Weather", "?">>,      \* greeting and off-topic
      <<"hi", "gh", " ", "score">>,            \* starts with "hi" but no greeting
      <<"best", " ", "pizza", " ", "recipe">>, \* off-topic
      <<"weather", " ", "at", " ", "CURT">>,   \* on-topic term overrides
      <<"what", " ", "is", " ", "curt", "?">> }\* on-topic

ChatHistories ==
    { <<>>,
      << [isdict |-> TRUE, role |-> "user", content |-> Text(<<"q">>)],
         [isdict |-> TRUE, role |-> "assistant", content |-> Text(<<"a">>)],
         [isdict |-> TRUE, role |-> "system", content |-> Text(<<"s">>)] >> }

\* what the expansion chain may return for q
ExpandedQueries(q) == {q, q \o <<" ", "CURT team members, structure, roles">>}

\* what the rag chain may return
Drafts == { <<"CURT", " ", "builds", " ", "race", " ", "cars.">>, <<>> }

\* what the hallucination chain may return
VerifyResponses ==
    { <<"GROUNDED">>,
      <<"HALLUCINATION", ":", " ", "the date is not in the context">>,
      <<" ", "hallucination", "\n">>,
      <<"no", " ", "HALLUCINATION">> }

\* the indices a rerank result may carry for n documents: the first two
\* documents, the last one, and n, which is out of range
ResultIndices(n) == {0, 1, n - 1, n} \cap 0..n

\* the index lists a rerank response may carry for n documents: up to
\* MaxResults results
RerankResults(n) ==
    UNION {[1..len -> ResultIndices(n)] : len \in 0..MaxResults}

\* cohere_client.rerank raises, or returns a response with some results
RerankOutcomes(n) ==
    {[raises |-> TRUE, results |-> <<>>]}
    \cup {[raises |-> FALSE, results |-> r] : r \in RerankResults(n)}

NoResponse == [raises |-> FALSE, results |-> <<>>]

NoResult == [pending |-> TRUE]

----------------------------------------------------------------------------
\* CURTRagPipeline.run, one action per collaborator call

Invoke(stage, args) == calls' = Append(calls, [stage |-> stage, args |-> args])

Raise(stage) ==
    /\ pc' = "raised"
    /\ result' = NoResult
    /\ raised_by' = stage

Return(dict) ==
    /\ pc' = "returned"
    /\ result' = dict
    /\ UNCHANGED raised_by

\* run(query, chat_history) is called
Call(q, h) ==
    /\ pc = "idle"
    /\ pc' = "classify"
    /\ query' = q
    /\ chat_history' = h
    /\ UNCHANGED <<expanded_query, raw_docs, rerank_score, valid_docs,
                   compressed_context, answer, check_result, result, calls,
                   rerank_response, raised_by>>

\* lines 106-107
ReturnGreeting ==
    /\ pc = "classify"
    /\ is_greeting(query)
    /\ Return([answer |-> GREETING_RESPONSE, sources |-> <<>>,
               status |-> "greeting"])
    /\ UNCHANGED <<query, chat_history, expanded_query, raw_docs, rerank_score,
                   valid_docs, compressed_context, answer, check_result, calls,
                   rerank_response>>

\* faulty variant: the off-topic test does not come after the greeting test
ReturnOffTopicFirst ==
    /\ pc = "classify"
    /\ is_off_topic(query)
    /\ Return([answer |-> OFF_TOPIC_RESPONSE, sources |-> <<>>,
               status |-> "off_topic"])
    /\ UNCHANGED <<query, chat_history, expanded_query, raw_docs, rerank_score,
                   valid_docs, compressed_context, answer, check_result, calls,
                   rerank_response>>

\* lines 109-110
ReturnOffTopic ==
    /\ pc = "classify"
    /\ ~is_greeting(query)
    /\ is_off_topic(query)
    /\ Return([answer |-> OFF_TOPIC_RESPONSE, sources |-> <<>>,
               status |-> "off_topic"])
    /\ UNCHANGED <<query, chat_history, expanded_query, raw_docs, rerank_score,
                   valid_docs, compressed_context, answer, check_result, calls,
                   rerank_response>>

\* line 112: expansion_chain.invoke returns e
Expand(e) ==
    /\ pc = "classify"
    /\ ~is_greeting(query)
    /\ ~is_off_topic(query)
    /\ Invoke("expansion", [query |-> query])
    /\ expanded_query' = e
    /\ pc' = "retrieve"
    /\ UNCHANGED <<query, chat_history, raw_docs, rerank_score, valid_docs,
                   compressed_context, answer, check_result, result,
                   rerank_response, raised_by>>

\* faulty variant: an expansion failure falls back to the raw query
ExpandFallsBack ==
    /\ pc = "classify"
    /\ ~is_greeting(query)
    /\ ~is_off_topic(query)
    /\ Invoke("expansion", [query |-> query])
    /\ expanded_query' = query
    /\ pc' = "retrieve"
    /\ raised_by' = "expansion"
    /\ UNCHANGED <<query, chat_history, raw_docs, rerank_score, valid_docs,
                   compressed_context, answer, check_result, result,
                   rerank_response>>

\* line 112: expansion_chain.invoke raises
ExpandRaises ==
    /\ pc = "classify"
    /\ ~is_greeting(query)
    /\ ~is_off_topic(query)
    /\ Invoke("expansion", [query |-> query])
    /\ Raise("expansion")
    /\ UNCHANGED <<query, chat_history, expanded_query, raw_docs, rerank_score,
                   valid_docs, compressed_context, answer, check_result,
                   rerank_response>>

\* faulty variant: the empty retrieval is not short-circuited
RetrieveUnchecked(n) ==
    /\ pc = "retrieve"
    /\ Invoke("retrieval", [query |-> expanded_query])
    /\ raw_docs' = [i \in 1..n |-> Doc(i)]
    /\ rerank_score' = NoScores
    /\ pc' = "rerank"
    /\ UNCHANGED <<query, chat_history, expanded_query, valid_docs,
                   compressed_context, answer, check_result, rerank_response,
                   result, raised_by>>

\* lines 116-120: retriever.invoke returns n documents
Retrieve(n) ==
    /\ pc = "retrieve"
    /\ Invoke("retrieval", [query |-> expanded_query])
    /\ raw_docs' = [i \in 1..n |-> Doc(i)]
    /\ rerank_score' = NoScores
    /\ IF raw_docs' = <<>>
       THEN Return([answer |-> NO_CONTEXT_RESPONSE, sources |-> <<>>,
                    status |-> "no_docs"])
       ELSE pc' = "rerank" /\ UNCHANGED <<result, raised_by>>
    /\ UNCHANGED <<query, chat_history, expanded_query, valid_docs,
                   compressed_context, answer, check_result, rerank_response>>

\* line 116: retriever.invoke raises
RetrieveRaises ==
    /\ pc = "retrieve"
    /\ Invoke("retrieval", [query |-> expanded_query])
    /\ Raise("retrieval")
    /\ UNCHANGED <<query, chat_history, expanded_query, raw_docs, rerank_score,
                   valid_docs, compressed_context, answer, check_result,
                   rerank_response>>

\* faulty variant: a failed rerank call is tried a second time
RerankRetrying(outcome) ==
    /\ pc = "rerank"
    /\ LET call == [stage |-> "rerank",
                    args |-> [query |-> query, documents |-> raw_docs,
                              top_n |-> TopN]]
       IN  calls' = IF outcome.raises THEN Append(Append(calls, call), call)
                    ELSE Append(calls, call)
    /\ rerank_response' = outcome
    /\ LET r == rerank_with_cohere(raw_docs, TopN, rerank_score, outcome)
       IN  /\ valid_docs' = r.docs
           /\ rerank_score' = r.scores
           /\ compressed_context' =
                 Join(<<"\n\n">>, [i \in 1..Len(r.docs) |-> r.docs[i].page_content])
    /\ pc' = "generate"
    /\ UNCHANGED <<query, chat_history, expanded_query, raw_docs, answer,
                   check_result, result, raised_by>>

\* lines 123-124: _rerank_with_cohere with the Cohere client answering outcome
Rerank(outcome) ==
    /\ pc = "rerank"
    /\ Invoke("rerank", [query |-> query, documents |-> raw_docs,
                         top_n |-> TopN])
    /\ rerank_response' = outcome
    /\ LET r == rerank_with_cohere(raw_docs, TopN, rerank_score, outcome)
       IN  /\ valid_docs' = r.docs
           /\ rerank_score' = r.scores
           /\ compressed_context' =
                 Join(<<"\n\n">>, [i \in 1..Len(r.docs) |-> r.docs[i].page_content])
    /\ pc' = "generate"
    /\ UNCHANGED <<query, chat_history, expanded_query, raw_docs, answer,
                   check_result, result, raised_by>>

\* faulty variant: the generation question is the expanded query
GenerateFromExpanded(draft) ==
    /\ pc = "generate"
    /\ Invoke("generation", [context |-> compressed_context,
                             question |-> expanded_query,
                             chat_history |-> format_chat_history(chat_history)])
    /\ answer' = draft
    /\ pc' = "verify"
    /\ UNCHANGED <<query, chat_history, expanded_query, raw_docs, rerank_score,
                   valid_docs, compressed_context, check_result, result,
                   rerank_response, raised_by>>

\* lines 127-133: rag_chain.invoke returns draft
Generate(draft) ==
    /\ pc = "generate"
    /\ Invoke("generation", [context |-> compressed_context, question |-> query,
                             chat_history |-> format_chat_history(chat_history)])
    /\ answer' = draft
    /\ pc' = "verify"
    /\ UNCHANGED <<query, chat_history, expanded_query, raw_docs, rerank_score,
                   valid_docs, compressed_context, check_result, result,
                   rerank_response, raised_by>>

\* lines 127-133: rag_chain.invoke raises
GenerateRaises ==
    /\ pc = "generate"
    /\ Invoke("generation", [context |-> compressed_context, question |-> query,
                             chat_history |-> format_chat_history(chat_history)])
    /\ Raise("generation")
    /\ UNCHANGED <<query, chat_history, expanded_query, raw_docs, rerank_score,
                   valid_docs, compressed_context, answer, check_result,
                   rerank_response>>

\* faulty variant: the disclaimer is never appended
AnnotateDropped(ans, check) == ans

\* the value of answer after lines 143-144
Annotate(ans, check) ==
    IF FlagsHallucination(check) THEN ans \o DISCLAIMER ELSE ans

\* faulty variant: the success dict is built like the short-circuit dicts
VerifyThreeKeys(check) ==
    /\ pc = "verify"
    /\ Invoke("verification", [context |-> compressed_context, answer |-> answer])
    /\ check_result' = check
    /\ answer' = Annotate(answer, check)
    /\ Return([answer |-> enhance_response_with_sources(answer', valid_docs),
               sources |-> valid_docs,
               status |-> "success"])
    /\ UNCHANGED <<query, chat_history, expanded_query, raw_docs, rerank_score,
                   valid_docs, compressed_context, rerank_response>>

\* lines 136-153: hallucination_chain.invoke returns check
Verify(check) ==
    /\ pc = "verify"
    /\ Invoke("verification", [context |-> compressed_context, answer |-> answer])
    /\ check_result' = check
    /\ answer' = Annotate(answer, check)
    /\ Return([answer |-> enhance_response_with_sources(answer', valid_docs),
               raw_answer |-> answer',
               sources |-> valid_docs,
               expanded_query |-> expanded_query,
               status |-> "success"])
    /\ UNCHANGED <<query, chat_history, expanded_query, raw_docs, rerank_score,
                   valid_docs, compressed_context,
                   rerank_response>>

\* lines 136-139: hallucination_chain.invoke raises
VerifyRaises ==
    /\ pc = "verify"
    /\ Invoke("verification", [context |-> compressed_context, answer |-> answer])
    /\ Raise("verification")
    /\ UNCHANGED <<query, chat_history, expanded_query, raw_docs, rerank_score,
                   valid_docs, compressed_context, answer, check_result,
                   rerank_response>>

PipeInit ==
    /\ pc = "idle"
    /\ query = <<>>
    /\ chat_history = <<>>
    /\ expanded_query = <<>>
    /\ raw_docs = <<>>
    /\ rerank_score = NoScores
    /\ valid_docs = <<>>
    /\ compressed_context = <<>>
    /\ answer = <<>>
    /\ check_result = <<>>
    /\ result = NoResult
    /\ calls = <<>>
    /\ rerank_response = NoResponse
    /\ raised_by = "none"

\* MemoryManager is not in use
MemIdle ==
    /\ window_size = 5
    /\ full_history = <<>>
    /\ mem_op = "none"
    /\ mem_ret = NoReturn

\* no function of prompts.py is being called on its own
NoValue == [flag |-> FALSE, text |-> <<>>]

FnIdle ==
    /\ fn_op = "none"
    /\ fn_query = <<>>
    /\ fn_chunks = <<>>
    /\ fn_ret = NoValue

\* no chat session is open
ChatIdle ==
    /\ session_messages = <<>>
    /\ conversation_started = FALSE
    /\ chat_pc = "closed"
    /\ prompt = <<>>
    /\ relevant_history = <<>>
    /\ prev_messages = <<>>
    /\ last_event = "none"

Init == PipeInit /\ MemIdle /\ IngestIdle /\ FnIdle /\ ChatIdle

Next ==
    \/ \E q \in Queries, h \in ChatHistories : Call(q, h) /\ UNCHANGED <<memVars, ingVars, fnVars, chatVars>>
    \/ ReturnGreeting /\ UNCHANGED <<memVars, ingVars, fnVars, chatVars>>
    \/ ReturnOffTopic /\ UNCHANGED <<memVars, ingVars, fnVars, chatVars>>
    \/ \E e \in ExpandedQueries(query) : Expand(e) /\ UNCHANGED <<memVars, ingVars, fnVars, chatVars>>
    \/ ExpandRaises /\ UNCHANGED <<memVars, ingVars, fnVars, chatVars>>
    \/ \E n \in 0..Min(MaxDocs, RetrieverK) : Retrieve(n) /\ UNCHANGED <<memVars, ingVars, fnVars, chatVars>>
    \/ RetrieveRaises /\ UNCHANGED <<memVars, ingVars, fnVars, chatVars>>
    \/ \E outcome \in RerankOutcomes(Len(raw_docs)) :
          Rerank(outcome) /\ UNCHANGED <<memVars, ingVars, fnVars, chatVars>>
    \/ \E draft \in Drafts : Generate(draft) /\ UNCHANGED <<memVars, ingVars, fnVars, chatVars>>
    \/ GenerateRaises /\ UNCHANGED <<memVars, ingVars, fnVars, chatVars>>
    \/ \E check \in VerifyResponses : Verify(check) /\ UNCHANGED <<memVars, ingVars, fnVars, chatVars>>
    \/ VerifyRaises /\ UNCHANGED <<memVars, ingVars, fnVars, chatVars>>

Spec == Init /\ [][Next]_vars

\* A MemoryManager with any window size is handed any list; the pipeline is idle
MemoryInit ==
    /\ PipeInit
    /\ window_size \in 1..MaxWindow
    /\ full_history \in Transcripts
    /\ mem_op = "none"
    /\ mem_ret = NoReturn
    /\ IngestIdle
    /\ FnIdle
    /\ ChatIdle

MemoryNext ==
    \/ GetRecentHistory /\ UNCHANGED <<pipeVars, ingVars, fnVars, chatVars>>
    \/ GetLastPair /\ UNCHANGED <<pipeVars, ingVars, fnVars, chatVars>>
    \/ EstimateTokens /\ UNCHANGED <<pipeVars, ingVars, fnVars, chatVars>>
    \/ GetStats /\ UNCHANGED <<pipeVars, ingVars, fnVars, chatVars>>
    \/ ValidateHistory /\ UNCHANGED <<pipeVars, ingVars, fnVars, chatVars>>

MemorySpec == MemoryInit /\ [][MemoryNext]_vars

----------------------------------------------------------------------------
\* Properties of CURTRagPipeline.run

Invoked(stage) == \E i \in 1..Len(calls) : calls[i].stage = stage

LastCall == calls[Len(calls)]

Succeeded == pc = "returned" /\ result.status = "success"

Flagged == Succeeded /\ FlagsHallucination(check_result)

\* the draft answer the rag chain produced, as handed to verification
DraftAnswer == LastCall.args.answer

\* C1 (as stated): when verification flags unsupported content, the returned
\* answer contains the disclaimer sentence and raw_answer does not.
C1_RawAnswerWithoutDisclaimer ==
    Flagged =>
        /\ Contains(result.answer, DISCLAIMER_SENTENCE)
        /\ ~Contains(result.raw_answer, DISCLAIMER_SENTENCE)

\* C1 (amended): when verification flags unsupported content, the returned
\* answer contains the disclaimer sentence and so does raw_answer: raw_answer
\* is the draft answer with the disclaimer appended, the answer before the
\* citation block is added.
C1_DisclaimerInAnswerAndRawAnswer ==
    Flagged =>
        /\ Contains(result.answer, DISCLAIMER_SENTENCE)
        /\ Contains(result.raw_answer, DISCLAIMER_SENTENCE)
        /\ result.raw_answer = DraftAnswer \o DISCLAIMER
        /\ StartsWith(result.answer, result.raw_answer)

C1_Witness ==
    /\ Flagged
    /\ check_result = <<" ", "hallucination", "\n">>
    /\ result.sources # <<>>

\* whether the reranking collaborator raised inside _rerank_with_cohere: at
\* the call, or while its results were mapped back to documents
RerankFailed ==
    /\ Invoked("rerank")
    /\ \/ rerank_response.raises
       \/ RerankLoop(raw_docs, rerank_response.results, 1, <<>>, NoScores).raised

\* C4: when the reranking collaborator raises during _rerank_with_cohere, run
\* does not fail on it: it goes on with the first min(5, retrieved) documents
\* in retrieval order, only generation or verification can still raise, and a
\* returned result has status success and exactly those documents as sources.
C4_RerankFailureFallsBack ==
    RerankFailed =>
        /\ Len(valid_docs) = Min(5, Len(raw_docs))
        /\ \A i \in 1..Len(valid_docs) : valid_docs[i] = raw_docs[i]
        /\ raised_by \in {"none", "generation", "verification"}
        /\ pc \in {"generate", "verify", "returned", "raised"}
        /\ (pc = "raised") = (raised_by # "none")
        /\ pc = "returned" =>
              /\ result.status = "success"
              /\ result.sources = valid_docs

\* the loop raised after it had already scored a document, more than 5
\* documents were retrieved, and run returned
C4_Witness ==
    /\ RerankFailed
    /\ ~rerank_response.raises
    /\ \E i \in 1..MaxDocs : rerank_score[i] # <<>>
    /\ Len(raw_docs) > TopN
    /\ Succeeded

\* C5: a greeting query returns the canned greeting with status greeting even
\* when it is off-topic too; otherwise an off-topic query returns the canned
\* off-topic message with status off_topic; both with empty sources and
\* without any collaborator call.
C5_ClassificationShortCircuit ==
    /\ (pc # "idle" /\ is_greeting(query)) =>
          /\ pc \in {"classify", "returned"}
          /\ calls = <<>>
          /\ pc = "returned" =>
                /\ result.answer = GREETING_RESPONSE
                /\ result.status = "greeting"
                /\ result.sources = <<>>
    /\ (pc # "idle" /\ ~is_greeting(query) /\ is_off_topic(query)) =>
          /\ pc \in {"classify", "returned"}
          /\ calls = <<>>
          /\ pc = "returned" =>
                /\ result.answer = OFF_TOPIC_RESPONSE
                /\ result.status = "off_topic"
                /\ result.sources = <<>>

\* a query that is a greeting and off-topic has returned
C5_Witness ==
    /\ pc = "returned"
    /\ is_greeting(query)
    /\ is_off_topic(query)
    /\ result.status = "greeting"

\* the retriever answered with zero documents
RetrievedNothing ==
    /\ Invoked("retrieval")
    /\ raised_by # "retrieval"
    /\ raw_docs = <<>>

\* C6: when retrieval returns zero candidates, run returns the canned
\* no-context message with status no_docs and empty sources, and rerank,
\* generation and verification are not invoked.
C6_NoDocsShortCircuit ==
    RetrievedNothing =>
        /\ pc = "returned"
        /\ result.answer = NO_CONTEXT_RESPONSE
        /\ result.status = "no_docs"
        /\ result.sources = <<>>
        /\ ~Invoked("rerank")
        /\ ~Invoked("generation")
        /\ ~Invoked("verification")
        /\ Len(calls) = 2

C6_Witness ==
    /\ RetrievedNothing
    /\ pc = "returned"
    /\ LastCall.stage = "retrieval"
    /\ expanded_query # query

Statuses == {"greeting", "off_topic", "no_docs", "success"}

AllFields == {"answer", "raw_answer", "sources", "expanded_query", "status"}

\* C7 (as stated): every result run returns carries the five fields answer,
\* raw_answer, sources, expanded_query and status, with status one of the
\* four values.
C7_AllFiveFields ==
    pc = "returned" =>
        /\ DOMAIN result = AllFields
        /\ result.status \in Statuses

\* C7 (amended): every result run returns carries answer, sources and status,
\* with status one of the four values; raw_answer and expanded_query are
\* carried exactly by the results with status success.
C7_FieldsByStatus ==
    pc = "returned" =>
        /\ {"answer", "sources", "status"} \subseteq DOMAIN result
        /\ result.status \in Statuses
        /\ result.status = "success" => DOMAIN result = AllFields
        /\ result.status # "success" =>
              DOMAIN result = {"answer", "sources", "status"}

\* a result with status success was returned
C7_Witness ==
    /\ pc = "returned"
    /\ result.status = "success"
    /\ result.expanded_query # query

\* C8: when the expansion, generation or verification collaborator raises,
\* run raises: no result is returned, the failing call is the last
\* collaborator call of the request, and after an expansion failure
\* retrieval is never queried.
C8_FailurePropagates ==
    raised_by \in {"expansion", "generation", "verification"} =>
        /\ pc = "raised"
        /\ result = NoResult
        /\ LastCall.stage = raised_by
        /\ \A i \in 1..(Len(calls) - 1) : calls[i].stage # raised_by
        /\ raised_by = "expansion" => ~Invoked("retrieval") /\ Len(calls) = 1
        /\ raised_by = "generation" => ~Invoked("verification")

C8_Witness ==
    /\ pc = "raised"
    /\ raised_by = "expansion"
    /\ calls = <<[stage |-> "expansion", args |-> [query |-> query]]>>

----------------------------------------------------------------------------
\* Properties of MemoryManager

RecentHistoryTaken == mem_op = "get_recent_history"

IsEven(n) == n % 2 = 0

Alternating(T) ==
    \A i \in 1..Len(T) :
        /\ T[i].isdict
        /\ T[i].role = (IF i % 2 = 1 THEN "user" ELSE "assistant")

IsSuffix(s, T) == Len(s) <= Len(T) /\ s = SubSeq(T, Len(T) - Len(s) + 1, Len(T))

\* C3: for a non-empty transcript that alternates user, assistant, ...
\* starting with a user message, the window get_recent_history returns starts
\* with a user message and is a suffix of the transcript.
C3_NeverStartsMidPair ==
    (RecentHistoryTaken /\ full_history # <<>> /\ Alternating(full_history)) =>
        /\ mem_ret.list # <<>>
        /\ mem_ret.list[1].role = "user"
        /\ IsSuffix(mem_ret.list, full_history)

\* C9: no Memory Window function raises, whatever the list holds.
C9_NeverRaises == mem_op # "none" => ~mem_ret.raised

----------------------------------------------------------------------------
\* The ingestion script is started in any environment: with or without the
\* API key, with any number of data files, over any state of CHROMA_DIR

IngestInit ==
    /\ PipeInit
    /\ MemIdle
    /\ FnIdle
    /\ ChatIdle
    /\ ing_pc = "main"
    /\ api_key \in BOOLEAN
    /\ data_files \in [md : 0..MaxFiles, txt : 0..MaxFiles]
    /\ store \in {NoStore, EmptyDir, OldStore}
    /\ store0 = store
    /\ ing_documents = <<>>
    /\ ing_chunks = <<>>
    /\ report = <<>>
    /\ store_ops = <<>>

IngestNext ==
    \/ Main /\ UNCHANGED <<pipeVars, memVars, fnVars, chatVars>>
    \/ \E md_raises \in BOOLEAN, txt_raises \in BOOLEAN :
          LoadDocuments(md_raises, txt_raises) /\ UNCHANGED <<pipeVars, memVars, fnVars, chatVars>>
    \/ \E k \in 0..MaxChunks : ChunkDocuments(k) /\ UNCHANGED <<pipeVars, memVars, fnVars, chatVars>>
    \/ ChunkRaises /\ UNCHANGED <<pipeVars, memVars, fnVars, chatVars>>
    \/ \E rmtree_raises \in BOOLEAN :
          DeleteExisting(rmtree_raises) /\ UNCHANGED <<pipeVars, memVars, fnVars, chatVars>>
    \/ CreateCollection /\ UNCHANGED <<pipeVars, memVars, fnVars, chatVars>>
    \/ CreateRaises /\ UNCHANGED <<pipeVars, memVars, fnVars, chatVars>>
    \/ VerifyDatabase /\ UNCHANGED <<pipeVars, memVars, fnVars, chatVars>>
    \/ VerifyDatabaseRaises /\ UNCHANGED <<pipeVars, memVars, fnVars, chatVars>>

IngestSpec == IngestInit /\ [][IngestNext]_vars

InReport(msg) == \E i \in 1..Len(report) : report[i] = msg

Performed(op) == \E i \in 1..Len(store_ops) : store_ops[i] = op

\* C10: when no documents are found, build_database reports it and returns
\* without deleting, modifying or creating a collection: the only operation
\* on CHROMA_DIR is the mkdir of main; and rmtree and from_documents are
\* performed only after documents were loaded and chunked.
C10_NoDocumentsNoWrite ==
    /\ (ing_pc \notin {"main", "no_key", "load"} /\ ing_documents = <<>>) =>
          /\ ing_pc = "aborted"
          /\ InReport("No data files found!")
          /\ store.collection = store0.collection
          /\ store.chunks = store0.chunks
          /\ store = [store0 EXCEPT !.dir = TRUE]
          /\ store_ops = <<"mkdir">>
    /\ (Performed("rmtree") \/ Performed("from_documents")) =>
          /\ ing_documents # <<>>
          /\ ing_pc \in {"create", "verify", "returned", "raised"}

\* an existing collection survived a run that found no documents, although
\* there were files whose loader raised
C10_Witness ==
    /\ ing_pc = "aborted"
    /\ store0 = OldStore
    /\ store = OldStore
    /\ data_files.md > 0

----------------------------------------------------------------------------
\* The classifiers and format_sources of prompts.py called on their own, on
\* any query of up to MaxQueryLen tokens or any list of up to MaxChunkList
\* chunks

QueryTokens == {"hi", ",", " ", "what", "weather", "Weather", "recipe",
                "sports", "score", "curt", "CURT", "car", "racing"}

ClassifierQueries == UNION {[1..len -> QueryTokens] : len \in 0..MaxQueryLen}

\* a chunk whose source is s; Absent is a chunk without 'source' metadata
ChunkFrom(s) == [id |-> 0, page_content |-> <<"text">>, source |-> s]

ChunkSources == {"data/team.md", "data/history.md", "Unknown", Absent}

ChunkLists ==
    UNION {[1..len -> {ChunkFrom(s) : s \in ChunkSources}] : len \in 0..MaxChunkList}

IsGreeting ==
    /\ fn_op = "none"
    /\ fn_op' = "is_greeting"
    /\ fn_ret' = [flag |-> is_greeting(fn_query), text |-> <<>>]
    /\ UNCHANGED <<fn_query, fn_chunks>>

IsOffTopic ==
    /\ fn_op = "none"
    /\ fn_op' = "is_off_topic"
    /\ fn_ret' = [flag |-> is_off_topic(fn_query), text |-> <<>>]
    /\ UNCHANGED <<fn_query, fn_chunks>>

FormatSources ==
    /\ fn_op = "none"
    /\ fn_op' = "format_sources"
    /\ fn_ret' = [flag |-> FALSE, text |-> format_sources(fn_chunks)]
    /\ UNCHANGED <<fn_query, fn_chunks>>

PromptsInit ==
    /\ PipeInit
    /\ MemIdle
    /\ IngestIdle
    /\ ChatIdle
    /\ fn_op = "none"
    /\ fn_ret = NoValue
    /\ \/ fn_query \in ClassifierQueries /\ fn_chunks = <<>>
       \/ fn_query = <<>> /\ fn_chunks \in ChunkLists

PromptsNext ==
    \/ IsGreeting /\ UNCHANGED <<pipeVars, memVars, ingVars, chatVars>>
    \/ IsOffTopic /\ UNCHANGED <<pipeVars, memVars, ingVars, chatVars>>
    \/ FormatSources /\ UNCHANGED <<pipeVars, memVars, ingVars, chatVars>>

PromptsSpec == PromptsInit /\ [][PromptsNext]_vars

\* the source identifiers of a chunk list, and where each occurs first
SourceAt(chunks, i) == ChunkSource(chunks[i])
SourcesOf(chunks) == {SourceAt(chunks, i) : i \in 1..Len(chunks)}
FirstOccurrence(chunks, s) ==
    CHOOSE i \in 1..Len(chunks) :
        /\ SourceAt(chunks, i) = s
        /\ \A j \in 1..(i - 1) : SourceAt(chunks, j) # s

\* the citation block read back: a header, then lines "<number>. <source>\n"
SOURCES_HEADER == "\n\n**Sources:**\n"
LineCount(text) == (Len(text) - 1) \div 4
LineNumber(text, k) == text[4 * k - 2]
LineSource(text, k) == text[4 * k]
WellFormedBlock(text) ==
    /\ Len(text) >= 1
    /\ text[1] = SOURCES_HEADER
    /\ (Len(text) - 1) % 4 = 0
    /\ \A k \in 1..LineCount(text) :
          text[4 * k - 1] = ". " /\ text[4 * k + 1] = "\n"

\* the block lists exactly the distinct sources of chunks, each once, numbered
\* by and ordered by the position of its first occurrence
ListsDistinctSources(text, chunks) ==
    /\ WellFormedBlock(text)
    /\ \A k \in 1..LineCount(text) : LineSource(text, k) \in SourcesOf(chunks)
    /\ \A s \in SourcesOf(chunks) :
          /\ Cardinality({k \in 1..LineCount(text) : LineSource(text, k) = s}) = 1
          /\ \A k \in 1..LineCount(text) :
                LineSource(text, k) = s
                    => LineNumber(text, k) = ToString(FirstOccurrence(chunks, s))
    /\ \A k1, k2 \in 1..LineCount(text) :
          k1 < k2 => FirstOccurrence(chunks, LineSource(text, k1))
                        < FirstOccurrence(chunks, LineSource(text, k2))

\* C11: format_sources returns the empty string for an empty chunk list; for a
\* non-empty list it lists each distinct source identifier exactly once, at
\* the position of its first occurrence, distinct identifiers in input order.
C11_EachSourceOnceInOrder ==
    fn_op = "format_sources" =>
        IF fn_chunks = <<>> THEN fn_ret.text = <<>>
        ELSE ListsDistinctSources(fn_ret.text, fn_chunks)

\* format_sources ran on a list where a source repeats after another source
\* came in between, and where a chunk has no source
C11_Witness ==
    /\ fn_op = "format_sources"
    /\ Len(fn_chunks) = 4
    /\ SourceAt(fn_chunks, 1) = SourceAt(fn_chunks, 3)
    /\ SourceAt(fn_chunks, 2) # SourceAt(fn_chunks, 1)
    /\ fn_chunks[4].source = Absent
    /\ LineCount(fn_ret.text) = 3

\* the lower-cased query has the words of term at consecutive positions
Mentions(q, term) ==
    \E start \in 1..Len(q) :
        /\ start + Len(term) - 1 <= Len(q)
        /\ \A j \in 1..Len(term) : LowerTok(q[start + j - 1]) = term[j]

MentionsOnTopic(q) == \E term \in on_topic_terms : Mentions(q, term)
MentionsOffTopic(q) == \E keyword \in off_topic_keywords : Mentions(q, keyword)

\* C12: is_off_topic(query) is true exactly when the lower-cased query
\* contains none of the on-topic keywords and at least one off-topic keyword;
\* any on-topic keyword forces false.
C12_OffTopicExactly ==
    fn_op = "is_off_topic" =>
        /\ fn_ret.flag = (~MentionsOnTopic(fn_query) /\ MentionsOffTopic(fn_query))
        /\ MentionsOnTopic(fn_query) => ~fn_ret.flag

\* is_off_topic ran on a query with an off-topic keyword and an on-topic term,
\* neither in lower case, and answered false
C12_Witness ==
    /\ fn_op = "is_off_topic"
    /\ \E i, j \in 1..Len(fn_query) :
          fn_query[i] = "Weather" /\ fn_query[j] = "CURT"
    /\ fn_ret.flag = FALSE

\* a mapping with a role key of value 'user' or 'assistant' and a content key
WellFormedMessage(msg) ==
    /\ msg.isdict
    /\ msg.role \in {"user", "assistant"}
    /\ msg.content.tag # "absent"

\* C13: validate_history(messages) is true if and only if every element is a
\* mapping containing a role key with value 'user' or 'assistant' and a content
\* key; the empty sequence is valid.
C13_ValidIffEveryMessageWellFormed ==
    mem_op = "validate_history" =>
        /\ ~mem_ret.raised
        /\ mem_ret.flag =
              (\A i \in 1..Len(full_history) : WellFormedMessage(full_history[i]))
        /\ full_history = <<>> => mem_ret.flag

\* validate_history accepted a transcript of several messages, one of which
\* has a content key whose value is None
C13_Witness ==
    /\ mem_op = "validate_history"
    /\ Len(full_history) >= 3
    /\ \E i \in 1..Len(full_history) : full_history[i].content.tag = "none"
    /\ \E i \in 1..Len(full_history) : full_history[i].role = "user"
    /\ mem_ret.flag = TRUE

\* the collaborators in the order run reaches them
StageOrder == <<"expansion", "retrieval", "rerank", "generation", "verification">>

\* C14: a run is one linear pass without retries: each of the five
\* collaborators is invoked at most once per request and only in the order
\* expansion, retrieval, rerank, generation, verification, a stage only after
\* every earlier stage completed; this holds on the rerank-failure path too.
C14_OneLinearPass ==
    /\ Len(calls) <= Len(StageOrder)
    /\ \A i \in 1..Len(calls) : calls[i].stage = StageOrder[i]
    /\ raised_by # "none" =>
          /\ calls # <<>>
          /\ LastCall.stage = raised_by
          /\ pc = "raised"

\* the Cohere call itself raised, and the run still went through all five
\* stages, once each, and returned
C14_Witness ==
    /\ Invoked("rerank")
    /\ rerank_response.raises
    /\ Len(calls) = 5
    /\ Succeeded

\* generation and verification both returned
Verified == Invoked("verification") /\ raised_by = "none"

\* what follows the annotated answer in the returned answer
AfterRawAnswer ==
    SubSeq(result.answer, Len(result.raw_answer) + 1, Len(result.answer))

\* the returned answer is the draft, then the disclaimer if and only if the
\* verification response flags, then block
AnswerIsDraftThen(block) ==
    /\ StartsWith(result.answer, DraftAnswer)
    /\ result.raw_answer =
          (IF FlagsHallucination(check_result) THEN DraftAnswer \o DISCLAIMER
           ELSE DraftAnswer)
    /\ StartsWith(result.answer, result.raw_answer)
    /\ AfterRawAnswer = block

\* a newline and the citation block of the returned sources
CitationBlock ==
    IF /\ Len(AfterRawAnswer) >= 2
       /\ AfterRawAnswer[1] = "\n"
       /\ ListsDistinctSources(Tail(AfterRawAnswer), result.sources)
    THEN AfterRawAnswer
    ELSE <<"no citation block">>

\* C15 (as stated): whenever generation and verification both return, run
\* returns status success with non-empty sources, the answer begins with the
\* unmodified draft, the disclaimer is appended if and only if verification
\* flags, and the citation block comes after the annotated answer.
C15_SuccessWithNonEmptySources ==
    Verified =>
        /\ Succeeded
        /\ result.sources # <<>>
        /\ AnswerIsDraftThen(CitationBlock)

\* C15 (amended): whenever generation and verification both return, run
\* returns status success; the sources are the reranked chunks, empty exactly
\* when the reranker answered with no results; the answer begins with the
\* unmodified draft, the disclaimer is appended if and only if verification
\* flags, and the citation block comes after the annotated answer when there
\* are sources, while nothing follows it when there are none.
C15_AdvisoryCheck ==
    Verified =>
        /\ Succeeded
        /\ result.sources = valid_docs
        /\ (result.sources = <<>>) =
              (~rerank_response.raises /\ rerank_response.results = <<>>)
        /\ IF result.sources = <<>> THEN AnswerIsDraftThen(<<>>)
           ELSE AnswerIsDraftThen(CitationBlock)

\* a flagged draft came back annotated and followed by the citation block of
\* two reranked chunks
C15_Witness ==
    /\ Verified
    /\ FlagsHallucination(check_result)
    /\ DraftAnswer # <<>>
    /\ ~RerankFailed
    /\ Len(result.sources) = 2
    /\ Len(result.answer) > Len(result.raw_answer)

\* the texts of docs, in order, separated by a blank line
ContextOf(docs) ==
    Join(<<"\n\n">>, [k \in 1..Len(docs) |-> docs[k].page_content])

\* the retrieved documents the rerank results point at, in result order
RerankedOrder ==
    [k \in 1..Len(rerank_response.results) |->
        raw_docs[rerank_response.results[k] + 1]]

\* C16: the vector search is queried with the expanded query returned by the
\* expansion stage; the reranker and the generation question receive the
\* original query; generation and verification are given the same context
\* string, built from the reranked chunks in reranked order, and those chunks
\* in that order are the returned sources.
C16_QueryAndContextFlow ==
    /\ \A i \in 1..Len(calls) :
          /\ calls[i].stage = "retrieval" =>
                calls[i].args.query = expanded_query
          /\ calls[i].stage = "rerank" =>
                calls[i].args.query = query /\ calls[i].args.documents = raw_docs
          /\ calls[i].stage = "generation" =>
                /\ calls[i].args.question = query
                /\ calls[i].args.context = ContextOf(valid_docs)
          /\ calls[i].stage = "verification" =>
                /\ calls[i].args.context = calls[i - 1].args.context
                /\ calls[i].args.context = ContextOf(valid_docs)
    /\ (Invoked("rerank") /\ ~RerankFailed) => valid_docs = RerankedOrder
    /\ Succeeded => result.sources = valid_docs

\* the expansion changed the query, the reranker put a later document first,
\* and run returned
C16_Witness ==
    /\ Succeeded
    /\ expanded_query # query
    /\ ~RerankFailed
    /\ Len(valid_docs) = 2
    /\ valid_docs[1].id > valid_docs[2].id
    /\ valid_docs[1].page_content # valid_docs[2].page_content

----------------------------------------------------------------------------
\* The chat front end of streamlitapp.py: one script run per user event, the
\* pipeline seen as a call that returns a result or raises

Prompts == { <<"what", " ", "is", " ", "curt", "?">>, <<"hi">> }

\* response_data["answer"] of a result the pipeline returns
Answers == { <<"CURT", " ", "builds", " ", "race", " ", "cars.">> }

ERROR_RESPONSE ==
    <<"I encountered an error processing your request. Please try again.">>

ChatMessage(role, content) ==
    [isdict |-> TRUE, role |-> role, content |-> Text(content)]

\* lines 53-57: a new session
ChatInit ==
    /\ PipeInit
    /\ MemIdle
    /\ IngestIdle
    /\ FnIdle
    /\ session_messages = <<>>
    /\ conversation_started = FALSE
    /\ chat_pc = "waiting"
    /\ prompt = <<>>
    /\ relevant_history = <<>>
    /\ prev_messages = <<>>
    /\ last_event = "none"

\* lines 158-169: the user submits p
Submit(p) ==
    /\ chat_pc = "waiting"
    /\ Len(session_messages) < 2 * MaxTurns
    /\ conversation_started' = TRUE
    /\ session_messages' = Append(session_messages, ChatMessage("user", p))
    /\ relevant_history' = get_recent_history(window_size, session_messages')
    /\ prompt' = p
    /\ chat_pc' = "thinking"
    /\ prev_messages' = session_messages
    /\ last_event' = "submitted"

\* line 215 with full_response = content
SaveResponse(content) ==
    /\ session_messages' =
          Append(session_messages, ChatMessage("assistant", content))
    /\ chat_pc' = "waiting"
    /\ UNCHANGED <<conversation_started, prompt, relevant_history, prev_messages>>

\* lines 177-205, 215: pipeline.run returns a result whose answer is ans
PipelineReturns(ans) ==
    /\ chat_pc = "thinking"
    /\ SaveResponse(ans)
    /\ last_event' = "returned"

\* lines 193-212, 215: pipeline.run returns, showing the sources raises
SourcesDisplayRaises ==
    /\ chat_pc = "thinking"
    /\ SaveResponse(ERROR_RESPONSE)
    /\ last_event' = "returned"

\* faulty variant: a failed turn saves no assistant message
PipelineRaisesUnsaved ==
    /\ chat_pc = "thinking"
    /\ chat_pc' = "waiting"
    /\ last_event' = "raised"
    /\ UNCHANGED <<session_messages, conversation_started, prompt,
                   relevant_history, prev_messages>>

\* lines 177-178, 209-215: pipeline.run raises
PipelineRaises ==
    /\ chat_pc = "thinking"
    /\ SaveResponse(ERROR_RESPONSE)
    /\ last_event' = "raised"

\* lines 126-129: the Clear Conversation button
ClearConversation ==
    /\ chat_pc = "waiting"
    /\ session_messages' = <<>>
    /\ prev_messages' = session_messages
    /\ last_event' = "cleared"
    /\ UNCHANGED <<conversation_started, chat_pc, prompt, relevant_history>>

ChatNext ==
    \/ \E p \in Prompts : Submit(p) /\ UNCHANGED <<pipeVars, memVars, ingVars, fnVars>>
    \/ \E ans \in Answers :
          PipelineReturns(ans) /\ UNCHANGED <<pipeVars, memVars, ingVars, fnVars>>
    \/ SourcesDisplayRaises /\ UNCHANGED <<pipeVars, memVars, ingVars, fnVars>>
    \/ PipelineRaises /\ UNCHANGED <<pipeVars, memVars, ingVars, fnVars>>
    \/ ClearConversation /\ UNCHANGED <<pipeVars, memVars, ingVars, fnVars>>

ChatSpec == ChatInit /\ [][ChatNext]_vars

\* a turn has just been completed
TurnCompleted == last_event \in {"returned", "raised"}

\* the transcript is prev_messages followed by added
GrownBy(added) == session_messages = prev_messages \o added

\* C17: after every completed turn, whether the pipeline returned or raised,
\* the transcript has grown by exactly one user message followed by exactly
\* one assistant message (the fixed apology text when the pipeline raised);
\* between turns it has even length and strictly alternates user, assistant;
\* earlier messages are never changed, a failed turn does not prevent the next
\* turn, and Clear Conversation resets the transcript to empty.
C17_TurnLoop ==
    /\ TurnCompleted =>
          /\ chat_pc = "waiting"
          /\ \E content \in Answers \cup {ERROR_RESPONSE} :
                /\ GrownBy(<<ChatMessage("user", prompt),
                             ChatMessage("assistant", content)>>)
                /\ last_event = "raised" => content = ERROR_RESPONSE
    /\ chat_pc = "thinking" => GrownBy(<<ChatMessage("user", prompt)>>)
    /\ chat_pc = "waiting" =>
          /\ IsEven(Len(session_messages))
          /\ Alternating(session_messages)
    /\ (last_event = "raised" /\ Len(session_messages) < 2 * MaxTurns) =>
          ENABLED (\E p \in Prompts : Submit(p))
    /\ last_event = "cleared" => session_messages = <<>>

\* a turn completed right after a failed turn, in a transcript long enough for
\* the memory window to cut it
C17_Witness ==
    /\ last_event = "returned"
    /\ Len(session_messages) = 12
    /\ session_messages[10].content.text = ERROR_RESPONSE
    /\ session_messages[12].content.text \in Answers
    /\ Len(relevant_history) < Len(session_messages) - 1

====
